---- MODULE Spec2Model ----
(***************************************************************************)
(* Model of the two top-chart pipelines of the repository:                 *)
(*   variant "A"  src/TopChart_Data.py  (genre feed, country feed, lookup) *)
(*   variant "B"  src/appstore.py       (chart page scrape, lookup)        *)
(* Text is modelled as a sequence of one-character strings, so that        *)
(* strip/lower/replace/substring and the file-name derivation are computed *)
(* the way the code computes them.  A Python value that may be None is     *)
(* None or Val(x).                                                         *)
(***************************************************************************)
EXTENDS Integers, Sequences, FiniteSets, TLC

VARIABLES
  variant,     \* "A": TopChart_Data.py, "B": appstore.py
  categories,  \* the list load_categories returned
  ci,          \* index of the category of the current (or last finished) iteration
  pc,          \* position of run (or of the stand-alone call under study)
  gid,         \* genre id of the current category: None or Val(n)
  entries,     \* the chart entries of the current category
  idx,         \* enumerate index of the detail loop
  rows,        \* rows assembled so far for the current category
  dets,        \* what the lookup returned for each assembled row
  files,       \* file name -> the data rows written to it
  writes,      \* log of save_rows_csv invocations
  reqs,        \* log of the requests issued for the current category
  genreRet,    \* what fetch_top_apps_by_genre returned for the current category
  country_name,\* appstore.run: get_country_name(country); None in variant A
  page,        \* the chart page handed to the scrape loop under study (None in run)
  lim,         \* the limit parameter of appstore.run / of the scrape under study
  rg           \* the robust_get call in progress (or just returned)

\* everything but the robust_get call
driverVars == <<variant, categories, ci, pc, gid, entries, idx, rows, dets,
                files, writes, reqs, genreRet, country_name, page, lim>>

vars == <<driverVars, rg>>

(***************************************************************************)
(* Python values                                                           *)
(***************************************************************************)
None == [none |-> TRUE]
Val(x) == [val |-> x]

\* str(x) of an optional text: str(None) is the text "None"
PyStr(o) == IF o = None THEN <<"N","o","n","e">> ELSE o.val

\* truthiness of an optional text / list / dict
Truthy(o) == o # None /\ o.val # <<>>

(***************************************************************************)
(* Text helpers (str.strip, str.lower, str.replace, the in operator)       *)
(***************************************************************************)
UpperChars == <<"A","B","C","D","E","F","G","H","I","J","K","L","M","N","O","P","Q","R","S","T","U","V","W","X","Y","Z">>
LowerChars == <<"a","b","c","d","e","f","g","h","i","j","k","l","m","n","o","p","q","r","s","t","u","v","w","x","y","z">>
DigitChars == <<"0","1","2","3","4","5","6","7","8","9">>
SpaceChars == {" ", "\t", "\n"}

Range(s) == {s[i] : i \in DOMAIN s}

LowerChar(c) ==
  IF \E i \in DOMAIN UpperChars : UpperChars[i] = c
  THEN LowerChars[CHOOSE i \in DOMAIN UpperChars : UpperChars[i] = c]
  ELSE c

Lower(s) == [i \in DOMAIN s |-> LowerChar(s[i])]

RECURSIVE LStrip(_)
LStrip(s) == IF s # <<>> /\ Head(s) \in SpaceChars THEN LStrip(Tail(s)) ELSE s

RECURSIVE RStrip(_)
RStrip(s) ==
  IF s # <<>> /\ s[Len(s)] \in SpaceChars THEN RStrip(SubSeq(s, 1, Len(s) - 1)) ELSE s

Strip(s) == RStrip(LStrip(s))

\* s.replace("&", "and")
RECURSIVE ReplaceAmp(_)
ReplaceAmp(s) ==
  IF s = <<>> THEN <<>>
  ELSE IF Head(s) = "&" THEN <<"a","n","d">> \o ReplaceAmp(Tail(s))
  ELSE <<Head(s)>> \o ReplaceAmp(Tail(s))

\* a in b, for two texts
IsSubstr(a, b) ==
  \E i \in 1..(Len(b) - Len(a) + 1) : SubSeq(b, i, i + Len(a) - 1) = a

Min(S) == CHOOSE x \in S : \A y \in S : x <= y

(***************************************************************************)
(* The genre table, in the order the dict literal lists it                 *)
(***************************************************************************)
GENRE_MAP ==
  <<
    [name |-> <<"b","o","o","k","s">>, gid |-> 6018],
    [name |-> <<"b","u","s","i","n","e","s","s">>, gid |-> 6000],
    [name |-> <<"d","e","v","e","l","o","p","e","r"," ","t","o","o","l","s">>, gid |-> 6026],
    [name |-> <<"e","d","u","c","a","t","i","o","n">>, gid |-> 6017],
    [name |-> <<"e","n","t","e","r","t","a","i","n","m","e","n","t">>, gid |-> 6016],
    [name |-> <<"f","i","n","a","n","c","e">>, gid |-> 6015],
    [name |-> <<"f","o","o","d"," ","&"," ","d","r","i","n","k">>, gid |-> 6023],
    [name |-> <<"g","r","a","p","h","i","c","s"," ","&"," ","d","e","s","i","g","n">>, gid |-> 6027],
    [name |-> <<"h","e","a","l","t","h"," ","&"," ","f","i","t","n","e","s","s">>, gid |-> 6013],
    [name |-> <<"l","i","f","e","s","t","y","l","e">>, gid |-> 6012],
    [name |-> <<"k","i","d","s">>, gid |-> 36],
    [name |-> <<"m","a","g","a","z","i","n","e","s"," ","&"," ","n","e","w","s","p","a","p","e","r","s">>, gid |-> 6021],
    [name |-> <<"m","e","d","i","c","a","l">>, gid |-> 6020],
    [name |-> <<"m","u","s","i","c">>, gid |-> 6011],
    [name |-> <<"n","a","v","i","g","a","t","i","o","n">>, gid |-> 6010],
    [name |-> <<"n","e","w","s">>, gid |-> 6009],
    [name |-> <<"p","h","o","t","o"," ","&"," ","v","i","d","e","o">>, gid |-> 6008],
    [name |-> <<"p","r","o","d","u","c","t","i","v","i","t","y">>, gid |-> 6007],
    [name |-> <<"r","e","f","e","r","e","n","c","e">>, gid |-> 6006],
    [name |-> <<"s","a","f","a","r","i"," ","e","x","t","e","n","s","i","o","n","s">>, gid |-> 1460],
    [name |-> <<"s","h","o","p","p","i","n","g">>, gid |-> 6024],
    [name |-> <<"s","o","c","i","a","l"," ","n","e","t","w","o","r","k","i","n","g">>, gid |-> 6005],
    [name |-> <<"s","p","o","r","t","s">>, gid |-> 6004],
    [name |-> <<"t","r","a","v","e","l">>, gid |-> 6003],
    [name |-> <<"u","t","i","l","i","t","i","e","s">>, gid |-> 6002],
    [name |-> <<"w","e","a","t","h","e","r">>, gid |-> 6001]
  >>

\* k in GENRE_MAP
InGenreMap(k) == \E i \in DOMAIN GENRE_MAP : GENRE_MAP[i].name = k

\* GENRE_MAP[k]
GenreOf(k) == GENRE_MAP[CHOOSE i \in DOMAIN GENRE_MAP : GENRE_MAP[i].name = k].gid

\* the keys for which "name in k or k in name" holds, as table positions
SubstrHits(k) ==
  {i \in DOMAIN GENRE_MAP :
     IsSubstr(GENRE_MAP[i].name, k) \/ IsSubstr(k, GENRE_MAP[i].name)}

\* mutant: the substring loop runs before the exact lookups
find_genre_id_SubstrFirst(category) ==
  LET k  == Lower(Strip(category))
      k2 == ReplaceAmp(k)
  IN  IF SubstrHits(k) # {} THEN Val(GENRE_MAP[Min(SubstrHits(k))].gid)
      ELSE IF InGenreMap(k) THEN Val(GenreOf(k))
      ELSE IF InGenreMap(k2) THEN Val(GenreOf(k2))
      ELSE None

\* TopChart_Data.find_genre_id
find_genre_id(category) ==
  LET k  == Lower(Strip(category))
      k2 == ReplaceAmp(k)
  IN  IF InGenreMap(k) THEN Val(GenreOf(k))
      ELSE IF InGenreMap(k2) THEN Val(GenreOf(k2))
      ELSE IF SubstrHits(k) # {} THEN Val(GENRE_MAP[Min(SubstrHits(k))].gid)
      ELSE None

\* GENRE_MAP of appstore.py, in the order its dict literal lists it
GENRE_MAP_B ==
  <<
    [name |-> <<"b","o","o","k","s">>, gid |-> 6018],
    [name |-> <<"b","u","s","i","n","e","s","s">>, gid |-> 6000],
    [name |-> <<"d","e","v","e","l","o","p","e","r"," ","t","o","o","l","s">>, gid |-> 6026],
    [name |-> <<"e","d","u","c","a","t","i","o","n">>, gid |-> 6017],
    [name |-> <<"e","n","t","e","r","t","a","i","n","m","e","n","t">>, gid |-> 6016],
    [name |-> <<"f","i","n","a","n","c","e">>, gid |-> 6015],
    [name |-> <<"f","o","o","d"," ","&"," ","d","r","i","n","k">>, gid |-> 6023],
    [name |-> <<"g","r","a","p","h","i","c","s"," ","&"," ","d","e","s","i","g","n">>, gid |-> 6027],
    [name |-> <<"h","e","a","l","t","h"," ","&"," ","f","i","t","n","e","s","s">>, gid |-> 6013],
    [name |-> <<"l","i","f","e","s","t","y","l","e">>, gid |-> 6012],
    [name |-> <<"k","i","d","s">>, gid |-> 36],
    [name |-> <<"m","a","g","a","z","i","n","e","s"," ","&"," ","n","e","w","s","p","a","p","e","r","s">>, gid |-> 6021],
    [name |-> <<"m","e","d","i","c","a","l">>, gid |-> 6020],
    [name |-> <<"m","u","s","i","c">>, gid |-> 6011],
    [name |-> <<"n","a","v","i","g","a","t","i","o","n">>, gid |-> 6010],
    [name |-> <<"n","e","w","s">>, gid |-> 6009],
    [name |-> <<"p","h","o","t","o"," ","&"," ","v","i","d","e","o">>, gid |-> 6008],
    [name |-> <<"p","r","o","d","u","c","t","i","v","i","t","y">>, gid |-> 6007],
    [name |-> <<"r","e","f","e","r","e","n","c","e">>, gid |-> 6006],
    [name |-> <<"s","a","f","a","r","i"," ","e","x","t","e","n","s","i","o","n","s">>, gid |-> 1460],
    [name |-> <<"s","h","o","p","p","i","n","g">>, gid |-> 6024],
    [name |-> <<"s","o","c","i","a","l"," ","n","e","t","w","o","r","k","i","n","g">>, gid |-> 6005],
    [name |-> <<"s","p","o","r","t","s">>, gid |-> 6004],
    [name |-> <<"t","r","a","v","e","l">>, gid |-> 6003],
    [name |-> <<"u","t","i","l","i","t","i","e","s">>, gid |-> 6002],
    [name |-> <<"w","e","a","t","h","e","r">>, gid |-> 6001]
  >>

\* k in GENRE_MAP, GENRE_MAP[k] (appstore.py)
InGenreMapB(k) == \E i \in DOMAIN GENRE_MAP_B : GENRE_MAP_B[i].name = k
GenreOfB(k) == GENRE_MAP_B[CHOOSE i \in DOMAIN GENRE_MAP_B : GENRE_MAP_B[i].name = k].gid

\* mutant: the loop without its break, the last matching key wins
RECURSIVE InlineLoop_NoBreak(_, _)
InlineLoop_NoBreak(k, i) ==
  IF i > Len(GENRE_MAP_B) THEN None
  ELSE LET rest == InlineLoop_NoBreak(k, i + 1)
       IN  IF rest # None THEN rest
           ELSE IF IsSubstr(GENRE_MAP_B[i].name, k) \/ IsSubstr(k, GENRE_MAP_B[i].name)
                THEN Val(GENRE_MAP_B[i].gid)
                ELSE None

\* the for loop of the inline resolution of appstore.run: gid stays None
\* until the first key, from position i on, with name in k or k in name
RECURSIVE InlineLoop(_, _)
InlineLoop(k, i) ==
  IF i > Len(GENRE_MAP_B) THEN None
  ELSE IF IsSubstr(GENRE_MAP_B[i].name, k) \/ IsSubstr(k, GENRE_MAP_B[i].name)
       THEN Val(GENRE_MAP_B[i].gid)
       ELSE InlineLoop(k, i + 1)

\* the inline resolution of appstore.run
InlineResolve(cat) ==
  LET k == Lower(Strip(cat))
  IN  IF InGenreMapB(k) THEN Val(GenreOfB(k))
      ELSE LET k2 == ReplaceAmp(k)
           IN  IF InGenreMapB(k2) THEN Val(GenreOfB(k2))
               ELSE InlineLoop(k, 1)

(***************************************************************************)
(* robust_get: one action per iteration of its for loop                    *)
(***************************************************************************)
MAX_RETRIES == 4

\* delay = 1.0, in units of 1/10000 s, so that four multiplications by
\* BACKOFF_FACTOR = 1.8 = BackoffNum / BackoffDen stay exact (in the code's
\* floats 1.0, 1.8 and 3.24 are these values; the fourth delay is
\* 5.832000000000001)
InitialDelay == 10000
BackoffNum == 18
BackoffDen == 10

\* what one requests.get can end in: a response with a status code, or a
\* requests.RequestException (timeout, connection failure)
Resp(s) == [status |-> s]
Exc == [exc |-> TRUE]
IsResp(o) == DOMAIN o = {"status"}

\* the status codes the upstream answers with: every code of the pool for the
\* stand-alone call, one code of each class for the calls made inside run
StatusCodes ==
  IF pc = "call" THEN {200, 204, 404, 429, 500, 502, 503, 504}
  ELSE {200, 404, 503}
Outcomes == {Resp(s) : s \in StatusCodes} \cup {Exc}

\* mutant: 404 added to the codes that are retried
RetryableA_With404 == {429, 503, 404}

\* "r.status_code in (429, 503)" of TopChart_Data.robust_get
RetryableA == {429, 503}
\* "r.status_code in (429, 503, 502, 504)" of appstore.robust_get
RetryableB == {429, 503, 502, 504}

Retryable == IF variant = "A" THEN RetryableA ELSE RetryableB

\* 200 <= r.status_code < 300
Is2xx(s) == 200 <= s /\ s < 300

IdleCall ==
  [st |-> "idle", attempt |-> 0, delay |-> InitialDelay, hist |-> <<>>,
   sleeps |-> <<>>, r |-> None]

\* entering robust_get: delay = 1.0, no attempt made yet
NewCall == [IdleCall EXCEPT !.st = "run"]

\* the value one iteration leaves the call in, when requests.get ends in o
AfterAttempt(c, o) ==
  LET attempt == c.attempt + 1
      seen == [c EXCEPT !.attempt = attempt, !.hist = Append(c.hist, o)]
  IN  IF IsResp(o) /\ (Is2xx(o.status) \/ o.status \notin Retryable)
      THEN [seen EXCEPT !.st = "ret", !.r = Val(o)]
      ELSE \* retryable status or RequestException: time.sleep(delay); delay *= BACKOFF_FACTOR
           [seen EXCEPT !.sleeps = Append(c.sleeps, c.delay),
                        !.delay = (c.delay * BackoffNum) \div BackoffDen,
                        !.st = IF attempt >= MAX_RETRIES THEN "ret" ELSE "run",
                        !.r = None]

RobustGetStep ==
  /\ rg.st = "run"
  /\ \E o \in Outcomes : rg' = AfterAttempt(rg, o)
  /\ UNCHANGED driverVars

\* "not r or r.status_code != 200" of every caller (a Response is falsy
\* when its status is 400 or above)
Failed(r) == r = None \/ r.val.status >= 400 \/ r.val.status # 200

(***************************************************************************)
(* Upstream payloads.  The code reads them through .get with defaults, so  *)
(* a payload is either malformed (json() or the parser raises) or the list *)
(* the code ends up iterating over.                                        *)
(***************************************************************************)
MaxEntries == 2
MaxCats == 2

RECURSIVE SeqsUpTo(_, _)
SeqsUpTo(S, n) ==
  IF n = 0 THEN {<<>>}
  ELSE LET shorter == SeqsUpTo(S, n - 1)
       IN  shorter \cup {Append(q, x) : q \in {t \in shorter : Len(t) = n - 1}, x \in S}

Id101 == <<"1","0","1">>
Id102 == <<"1","0","2">>

\* feed entries as the upstream sends them: "id" and "name" may be missing
EntryPool ==
  { [id |-> Val(Id101), name |-> Val(<<"X">>)],
    [id |-> None,       name |-> Val(<<"Y">>)] }

Malformed == [malformed |-> TRUE]
IsMalformed(p) == DOMAIN p = {"malformed"}

\* r.json() of the genre feed: .get("feed", {}).get("results", [])
GenrePayloads == {Malformed} \cup {[results |-> q] : q \in SeqsUpTo(EntryPool, MaxEntries)}

\* r.json() of the country feed: .get("feed", {}).get("entry", []), each
\* entry reduced to its id.attributes.im:id and im:name.label
CountryPayloads == {Malformed} \cup {[entry |-> q] : q \in SeqsUpTo(EntryPool, MaxEntries)}

\* the record of the iTunes lookup, with every key the row reads ...
FullDetail ==
  [trackName |-> <<"A","p","p">>, sellerName |-> <<"D","e","v">>,
   trackViewUrl |-> <<"h","t","t","p">>, price |-> <<"0">>,
   averageUserRating |-> <<"4">>, userRatingCount |-> <<"1","2">>,
   primaryGenreName |-> <<"F","r","e","e">>, description |-> <<"D","e","s","c">>,
   releaseDate |-> <<"2","0","2","0">>,
   currentVersionReleaseDate |-> <<"2","0","2","4">>]

\* ... and one that lacks trackName and trackViewUrl
PartialDetail ==
  [sellerName |-> <<"D","e","v">>, price |-> <<"0">>,
   averageUserRating |-> <<"4">>, userRatingCount |-> <<"1","2">>,
   primaryGenreName |-> <<"F","r","e","e">>, description |-> <<"D","e","s","c">>,
   releaseDate |-> <<"2","0","2","0">>,
   currentVersionReleaseDate |-> <<"2","0","2","4">>]

DetailPool == {FullDetail, PartialDetail}

\* r.json() of the lookup: .get("results", [])
LookupPayloads == {Malformed, [results |-> <<>>]} \cup {[results |-> <<d>>] : d \in DetailPool}

\* the chart page: its <a href> in document order, each reduced to the app
\* id APPID_RE finds in it (None: the href does not match)
LinkPool == {Val(Id101), Val(Id102), None}
ChartPayloads == {Malformed} \cup {[links |-> q] : q \in SeqsUpTo(LinkPool, MaxEntries)}

\* the body matters only to a caller that goes on to read it
BodiesOf(r, payloads) == IF Failed(r) THEN {Malformed} ELSE payloads

\* d.get(k)
DictGet(d, k) == IF k \in DOMAIN d THEN Val(d[k]) ELSE None

(***************************************************************************)
(* The fetchers of TopChart_Data.py, applied to what robust_get returned   *)
(***************************************************************************)
\* fetch_top_apps_by_genre
fetch_top_apps_by_genre(r, payload) ==
  IF Failed(r) THEN <<>>
  ELSE IF IsMalformed(payload) THEN <<>>
  ELSE payload.results

\* the for loop of fetch_country_topfree: entries without an id are dropped
RECURSIVE CountryOut(_)
CountryOut(feed) ==
  IF feed = <<>> THEN <<>>
  ELSE LET e == Head(feed)
       IN  IF Truthy(e.id)
           THEN <<[id |-> Val(PyStr(e.id)), name |-> e.name]>> \o CountryOut(Tail(feed))
           ELSE CountryOut(Tail(feed))

\* fetch_country_topfree
fetch_country_topfree(r, payload) ==
  IF Failed(r) THEN <<>>
  ELSE IF IsMalformed(payload) THEN <<>>
  ELSE CountryOut(payload.entry)

\* lookup_app_details (and appstore.lookup_app_details_itunes)
lookup_app_details(r, payload) ==
  IF Failed(r) THEN None
  ELSE IF IsMalformed(payload) THEN None
  ELSE IF payload.results # <<>> THEN Val(payload.results[1])
  ELSE None

(***************************************************************************)
(* Row assembly and the writer of TopChart_Data.py                         *)
(***************************************************************************)
COUNTRY_A == <<"a","r">>

\* mutant: enumerate(entries) with its default start
EnumStart_Zero == 1 - 1

\* enumerate(entries, start=1): the index given to the entry at list position p
EnumStart == 1
Rank(p) == EnumStart + p - 1

\* "details.get(k) if details else other"
FromDetail(details, k, other) ==
  IF Truthy(details) THEN DictGet(details.val, k) ELSE other

\* mutant: the entry's name is not used when the lookup returned nothing
AppNameA_NoFallback(details, app_name) == FromDetail(details, "trackName", None)

\* app_name of the row: "details.get("trackName") if details else app_name"
AppNameA(details, app_name) == FromDetail(details, "trackName", app_name)

\* the row dict of TopChart_Data.run
RowA(cat, g, i, e, details) ==
  [country |-> COUNTRY_A,
   category |-> cat,
   genre_id |-> g,
   rank |-> i,
   app_id |-> PyStr(e.id),
   app_name |-> AppNameA(details, e.name),
   developer |-> FromDetail(details, "sellerName", None),
   url |-> FromDetail(details, "trackViewUrl", None),
   price |-> FromDetail(details, "price", None),
   averageUserRating |-> FromDetail(details, "averageUserRating", None),
   userRatingCount |-> FromDetail(details, "userRatingCount", None),
   primaryGenreName |-> FromDetail(details, "primaryGenreName", None),
   description |-> FromDetail(details, "description", None),
   launch_date |-> FromDetail(details, "releaseDate", None),
   update_date |-> FromDetail(details, "currentVersionReleaseDate", None)]

\* str(n) of a natural number
RECURSIVE IntText(_)
IntText(n) ==
  IF n < 10 THEN <<DigitChars[n + 1]>>
  ELSE IntText(n \div 10) \o <<DigitChars[(n % 10) + 1]>>

\* the csv module writes None as the empty text
OptCell(o) == IF o = None THEN <<>> ELSE o.val
OptIntCell(o) == IF o = None THEN <<>> ELSE IntText(o.val)

IsAlnum(c) == c \in Range(UpperChars) \cup Range(LowerChars) \cup Range(DigitChars)

\* "".join(c if c.isalnum() or c in " _-" else "_" for c in category)
Sanitize(category) ==
  [i \in DOMAIN category |->
     IF IsAlnum(category[i]) \/ category[i] \in {" ", "_", "-"}
     THEN category[i] ELSE "_"]

\* .replace(" ", "_")
SpacesToUnderscores(s) == [i \in DOMAIN s |-> IF s[i] = " " THEN "_" ELSE s[i]]

\* OUTPUT_NAME_TPL.format(cat=safe) of TopChart_Data.save_rows_csv
FileNameA(category) ==
  <<"t","o","p","c","h","a","r","t","_","a","_">>
    \o SpacesToUnderscores(Sanitize(category)) \o <<".","c","s","v">>

\* one line of the file: DictWriter over the fixed key list
CsvRowA(r) ==
  [country |-> r.country,
   category |-> r.category,
   genre_id |-> OptIntCell(r.genre_id),
   rank |-> IntText(r.rank),
   app_id |-> r.app_id,
   app_name |-> OptCell(r.app_name),
   developer |-> OptCell(r.developer),
   url |-> OptCell(r.url),
   price |-> OptCell(r.price),
   averageUserRating |-> OptCell(r.averageUserRating),
   userRatingCount |-> OptCell(r.userRatingCount),
   primaryGenreName |-> OptCell(r.primaryGenreName),
   description |-> OptCell(r.description),
   launch_date |-> OptCell(r.launch_date),
   update_date |-> OptCell(r.update_date)]

\* mutant: the writer stops one row early
WrittenRowsA_DropLast(rs) == [i \in 1..(Len(rs) - 1) |-> CsvRowA(rs[i])]

\* the data rows "for r in rows: w.writerow(r)" leaves in the file
WrittenRowsA(rs) == [i \in DOMAIN rs |-> CsvRowA(rs[i])]

\* open(filename, "w") and the writes: the file holds what this call wrote
WriteFile(fs, name, content) ==
  [f \in DOMAIN fs \cup {name} |-> IF f = name THEN content ELSE fs[f]]

(***************************************************************************)
(* appstore.py: the chart page scrape, the row and the writer              *)
(***************************************************************************)
COUNTRY_B == <<"b","t">>
LIMIT == 50
USE_SCRAPER == FALSE

UpperChar(c) ==
  IF \E i \in DOMAIN LowerChars : LowerChars[i] = c
  THEN UpperChars[CHOOSE i \in DOMAIN LowerChars : LowerChars[i] = c]
  ELSE c

Upper(s) == [i \in DOMAIN s |-> UpperChar(s[i])]

\* pycountry.countries.get(alpha_2=code), for the codes the model uses
PycountryName(code) ==
  IF code = <<"B","T">> THEN Val(<<"B","h","u","t","a","n">>) ELSE None

\* the FALLBACK dict of get_country_name
FallbackName(code) ==
  IF code = <<"U","S">> THEN <<"U","n","i","t","e","d"," ","S","t","a","t","e","s">>
  ELSE IF code = <<"G","B">> THEN <<"U","n","i","t","e","d"," ","K","i","n","g","d","o","m">>
  ELSE IF code = <<"P","K">> THEN <<"P","a","k","i","s","t","a","n">>
  ELSE code

\* get_country_name; has_pycountry: whether the optional import succeeded
get_country_name(code, has_pycountry) ==
  LET up == Upper(code)
  IN  IF has_pycountry /\ PycountryName(up) # None THEN PycountryName(up).val
      ELSE FallbackName(up)

\* the for loop of scrape_charts_page_for_genre over the page's links
RECURSIVE ScrapeLoop(_, _, _)
ScrapeLoop(links, ids, limit) ==
  IF links = <<>> THEN ids
  ELSE LET m == Head(links)
       IN  IF m # None /\ m.val \notin Range(ids)
           THEN LET ids2 == Append(ids, m.val)
                IN  IF Len(ids2) >= limit THEN ids2
                    ELSE ScrapeLoop(Tail(links), ids2, limit)
           ELSE ScrapeLoop(Tail(links), ids, limit)

\* scrape_charts_page_for_genre
scrape_charts_page_for_genre(r, payload, limit) ==
  IF Failed(r) THEN <<>>
  ELSE IF IsMalformed(payload) THEN <<>>
  ELSE ScrapeLoop(payload.links, <<>>, limit)

\* a or b
PyOr(a, b) == IF Truthy(a) THEN a ELSE b

\* lookup_with_scraper is called only if USE_SCRAPER; scraper_extra = {} otherwise
ScraperExtra == <<>>

\* the row dict of appstore.run
RowB(cat, g, i, app_id, details, cname) ==
  LET name == FromDetail(details, "trackName", None)
  IN
  [country |-> COUNTRY_B,
   country_name |-> cname,
   category |-> cat,
   genre_id |-> g,
   rank |-> i,
   app_id |-> app_id,
   app_name |-> FromDetail(details, "trackName", PyOr(DictGet(ScraperExtra, "name"), name)),
   developer |-> FromDetail(details, "sellerName",
                            PyOr(DictGet(ScraperExtra, "developerName"),
                                 DictGet(ScraperExtra, "sellerName"))),
   url |-> FromDetail(details, "trackViewUrl", None),
   price |-> FromDetail(details, "price", None),
   averageUserRating |-> FromDetail(details, "averageUserRating", None),
   userRatingCount |-> FromDetail(details, "userRatingCount", None),
   primaryGenreName |-> FromDetail(details, "primaryGenreName", None),
   description |-> FromDetail(details, "description", DictGet(ScraperExtra, "description")),
   launch_date |-> FromDetail(details, "releaseDate", None),
   update_date |-> FromDetail(details, "currentVersionReleaseDate", None)]

\* OUTPUT_NAME_TPL.format(country=country_code, cat=safe_cat) of appstore.save_rows_csv
FileNameB(category, country_code) ==
  <<"t","o","p","c","h","a","r","t","_","c","a","t","_">> \o country_code \o <<"_">>
    \o SpacesToUnderscores(Strip(Sanitize(category))) \o <<".","c","s","v">>

CsvRowB(r) ==
  [country |-> r.country,
   country_name |-> r.country_name,
   category |-> r.category,
   genre_id |-> OptIntCell(r.genre_id),
   rank |-> IntText(r.rank),
   app_id |-> r.app_id,
   app_name |-> OptCell(r.app_name),
   developer |-> OptCell(r.developer),
   url |-> OptCell(r.url),
   price |-> OptCell(r.price),
   averageUserRating |-> OptCell(r.averageUserRating),
   userRatingCount |-> OptCell(r.userRatingCount),
   primaryGenreName |-> OptCell(r.primaryGenreName),
   description |-> OptCell(r.description),
   launch_date |-> OptCell(r.launch_date),
   update_date |-> OptCell(r.update_date)]

WrittenRowsB(rs) == [i \in DOMAIN rs |-> CsvRowB(rs[i])]

(***************************************************************************)
(* TopChart_Data.run                                                       *)
(***************************************************************************)
\* mutant: the country feed is asked whatever the genre feed returned
NotEntries_Always(es) == TRUE

\* "if not entries"
NotEntries(es) == es = <<>>

\* mutant: the genre feed is asked whatever the resolver returned
GidTruthy_Always(g) == TRUE

\* "if gid"
GidTruthy(g) == g # None /\ g.val # 0

\* "for cat in categories", find_genre_id, and the first fetch is requested
A_Resolve ==
  /\ variant = "A"
  /\ pc = "iter"
  /\ ci < Len(categories)
  /\ LET g == find_genre_id(categories[ci + 1])
     IN  /\ gid' = g
         /\ IF GidTruthy(g)
            THEN pc' = "genre" /\ reqs' = <<"genre">>
            ELSE pc' = "country" /\ reqs' = <<"country">>
  /\ ci' = ci + 1
  /\ rg' = NewCall
  /\ entries' = <<>>
  /\ idx' = 0
  /\ rows' = <<>>
  /\ dets' = <<>>
  /\ genreRet' = None
  /\ UNCHANGED <<variant, categories, files, writes, country_name, page, lim>>

\* fetch_top_apps_by_genre returns; "if not entries" asks the country feed
A_GenreParse ==
  /\ variant = "A"
  /\ pc = "genre"
  /\ rg.st = "ret"
  /\ \E payload \in BodiesOf(rg.r, GenrePayloads) :
       LET got == fetch_top_apps_by_genre(rg.r, payload)
       IN  /\ genreRet' = Val(got)
           /\ entries' = got
           /\ IF NotEntries(got)
              THEN pc' = "country" /\ idx' = 0 /\ reqs' = Append(reqs, "country")
              ELSE pc' = "lookup" /\ idx' = 1 /\ reqs' = Append(reqs, "lookup")
  /\ rg' = NewCall
  /\ UNCHANGED <<variant, categories, ci, gid, rows, dets, files, writes, country_name, page, lim>>

\* fetch_country_topfree returns
A_CountryParse ==
  /\ variant = "A"
  /\ pc = "country"
  /\ rg.st = "ret"
  /\ \E payload \in BodiesOf(rg.r, CountryPayloads) :
       LET got == fetch_country_topfree(rg.r, payload)
       IN  /\ entries' = got
           /\ IF got = <<>>
              THEN pc' = "save" /\ idx' = 0 /\ reqs' = reqs /\ rg' = IdleCall
              ELSE pc' = "lookup" /\ idx' = 1 /\ reqs' = Append(reqs, "lookup")
                   /\ rg' = NewCall
  /\ UNCHANGED <<variant, categories, ci, gid, rows, dets, files, writes, genreRet,
                 country_name, page, lim>>

\* one iteration of the detail loop: lookup_app_details returns, the row is
\* appended, and the next entry's lookup is requested
A_Detail ==
  /\ variant = "A"
  /\ pc = "lookup"
  /\ rg.st = "ret"
  /\ \E payload \in BodiesOf(rg.r, LookupPayloads) :
       LET details == lookup_app_details(rg.r, payload)
       IN  /\ rows' = Append(rows, RowA(categories[ci], gid, Rank(idx), entries[idx], details))
           /\ dets' = Append(dets, details)
  /\ IF idx < Len(entries)
     THEN pc' = "lookup" /\ idx' = idx + 1 /\ reqs' = Append(reqs, "lookup") /\ rg' = NewCall
     ELSE pc' = "save" /\ idx' = idx /\ reqs' = reqs /\ rg' = IdleCall
  /\ UNCHANGED <<variant, categories, ci, gid, entries, files, writes, genreRet,
                 country_name, page, lim>>

\* save_rows_csv(rows, cat): open(filename, "w") creates the file, or
\* empties the one that is there
A_Save ==
  /\ variant = "A"
  /\ pc = "save"
  /\ LET filename == FileNameA(categories[ci])
     IN  /\ files' = WriteFile(files, filename, <<>>)
         /\ writes' = Append(writes, [ci |-> ci, name |-> filename, nrows |-> Len(rows)])
  /\ pc' = "write"
  /\ UNCHANGED <<variant, categories, ci, gid, entries, idx, rows, dets, reqs,
                 genreRet, country_name, page, lim, rg>>

\* the header and "for r in rows: writerow(r)", then the with block closes
\* the file: the buffered rows are in the file
A_SaveClose ==
  /\ variant = "A"
  /\ pc = "write"
  /\ LET filename == FileNameA(categories[ci])
     IN  files' = WriteFile(files, filename, WrittenRowsA(rows))
  /\ pc' = "iter"
  /\ UNCHANGED <<variant, categories, ci, gid, entries, idx, rows, dets, writes, reqs,
                 genreRet, country_name, page, lim, rg>>

\* the loop is over: "[COMPLETE] All done."
A_Done ==
  /\ variant = "A"
  /\ pc = "iter"
  /\ ci = Len(categories)
  /\ pc' = "done"
  /\ UNCHANGED <<variant, categories, ci, gid, entries, idx, rows, dets, files,
                 writes, reqs, genreRet, country_name, page, lim, rg>>

(***************************************************************************)
(* appstore.run                                                            *)
(***************************************************************************)
\* mutant: "break" where the code says "continue"
AfterSkip_Break == "done"

\* "continue": the driver is back at the head of the for loop
AfterSkip == "iter"

\* "for cat in categories", the inline resolution; an unresolved category
\* is skipped, a resolved one has its chart page requested
B_Resolve ==
  /\ variant = "B"
  /\ pc = "iter"
  /\ ci < Len(categories)
  /\ LET g == InlineResolve(categories[ci + 1])
     IN  /\ gid' = g
         /\ IF g = None
            THEN pc' = AfterSkip /\ reqs' = <<>> /\ rg' = IdleCall
            ELSE pc' = "chart" /\ reqs' = <<"chart">> /\ rg' = NewCall
  /\ ci' = ci + 1
  /\ entries' = <<>>
  /\ idx' = 0
  /\ rows' = <<>>
  /\ dets' = <<>>
  /\ UNCHANGED <<variant, categories, files, writes, genreRet, country_name, page, lim>>

\* scrape_charts_page_for_genre returns; "if not app_ids: continue"
B_ChartParse ==
  /\ variant = "B"
  /\ pc = "chart"
  /\ rg.st = "ret"
  /\ \E payload \in BodiesOf(rg.r, ChartPayloads) :
       LET app_ids == scrape_charts_page_for_genre(rg.r, payload, lim)
       IN  /\ entries' = app_ids
           /\ IF app_ids = <<>>
              THEN pc' = AfterSkip /\ idx' = 0 /\ reqs' = reqs /\ rg' = IdleCall
              ELSE pc' = "lookup" /\ idx' = 1 /\ reqs' = Append(reqs, "lookup")
                   /\ rg' = NewCall
  /\ UNCHANGED <<variant, categories, ci, gid, rows, dets, files, writes, genreRet,
                 country_name, page, lim>>

\* one iteration of the detail loop
B_Detail ==
  /\ variant = "B"
  /\ pc = "lookup"
  /\ rg.st = "ret"
  /\ \E payload \in BodiesOf(rg.r, LookupPayloads) :
       LET details == lookup_app_details(rg.r, payload)
       IN  /\ rows' = Append(rows, RowB(categories[ci], gid, Rank(idx), entries[idx],
                                        details, country_name))
           /\ dets' = Append(dets, details)
  /\ IF idx < Len(entries)
     THEN pc' = "lookup" /\ idx' = idx + 1 /\ reqs' = Append(reqs, "lookup") /\ rg' = NewCall
     ELSE pc' = "save" /\ idx' = idx /\ reqs' = reqs /\ rg' = IdleCall
  /\ UNCHANGED <<variant, categories, ci, gid, entries, files, writes, genreRet,
                 country_name, page, lim>>

\* save_rows_csv(rows, cat, country): open(filename, "w") creates the file, or
\* empties the one that is there
B_Save ==
  /\ variant = "B"
  /\ pc = "save"
  /\ LET filename == FileNameB(categories[ci], COUNTRY_B)
     IN  /\ files' = WriteFile(files, filename, <<>>)
         /\ writes' = Append(writes, [ci |-> ci, name |-> filename, nrows |-> Len(rows)])
  /\ pc' = "write"
  /\ UNCHANGED <<variant, categories, ci, gid, entries, idx, rows, dets, reqs,
                 genreRet, country_name, page, lim, rg>>

\* the header and "for r in rows: writerow(r)", then the with block closes
\* the file: the buffered rows are in the file
B_SaveClose ==
  /\ variant = "B"
  /\ pc = "write"
  /\ LET filename == FileNameB(categories[ci], COUNTRY_B)
     IN  files' = WriteFile(files, filename, WrittenRowsB(rows))
  /\ pc' = "iter"
  /\ UNCHANGED <<variant, categories, ci, gid, entries, idx, rows, dets, writes, reqs,
                 genreRet, country_name, page, lim, rg>>

B_Done ==
  /\ variant = "B"
  /\ pc = "iter"
  /\ ci = Len(categories)
  /\ pc' = "done"
  /\ UNCHANGED <<variant, categories, ci, gid, entries, idx, rows, dets, files,
                 writes, reqs, genreRet, country_name, page, lim, rg>>

(***************************************************************************)
(* The pipeline: run() of either variant, after load_categories            *)
(***************************************************************************)
CatWeather == <<"W","e","a","t","h","e","r">>
CatZzz == <<"Z","z","z">>

CategoryPool == {CatWeather, CatZzz}

\* two labels that differ in one character, a space against an underscore
CatTopApps == <<"T","o","p"," ","A","p","p","s">>
CatTop_Apps == <<"T","o","p","_","A","p","p","s">>

\* what load_categories can return: distinct, trimmed labels in some order
CategoryLists ==
  {q \in SeqsUpTo(CategoryPool, MaxCats) : \A i, j \in DOMAIN q : i # j => q[i] # q[j]}
  \cup {<<CatTopApps, CatTop_Apps>>}

Init ==
  /\ variant \in {"A", "B"}
  /\ categories \in CategoryLists
  /\ ci = 0
  /\ pc = "iter"
  /\ gid = None
  /\ entries = <<>>
  /\ idx = 0
  /\ rows = <<>>
  /\ dets = <<>>
  /\ files = <<>>
  /\ writes = <<>>
  /\ reqs = <<>>
  /\ genreRet = None
  /\ country_name \in
       IF variant = "A" THEN {None}
       ELSE {Val(get_country_name(COUNTRY_B, has)) : has \in BOOLEAN}
  /\ page = None
  /\ lim = LIMIT
  /\ rg = IdleCall

Next ==
  \/ RobustGetStep
  \/ A_Resolve
  \/ A_GenreParse
  \/ A_CountryParse
  \/ A_Detail
  \/ A_Save
  \/ A_SaveClose
  \/ A_Done
  \/ B_Resolve
  \/ B_ChartParse
  \/ B_Detail
  \/ B_Save
  \/ B_SaveClose
  \/ B_Done

Spec == Init /\ [][Next]_vars

\* run is one sequential program: it keeps taking its next step
SpecFair == Spec /\ WF_vars(Next)

(***************************************************************************)
(* A stand-alone robust_get call, in either variant                        *)
(***************************************************************************)
InitGet ==
  /\ variant \in {"A", "B"}
  /\ categories = <<>>
  /\ ci = 0
  /\ pc = "call"
  /\ gid = None
  /\ entries = <<>>
  /\ idx = 0
  /\ rows = <<>>
  /\ dets = <<>>
  /\ files = <<>>
  /\ writes = <<>>
  /\ reqs = <<>>
  /\ genreRet = None
  /\ country_name = None
  /\ page = None
  /\ lim = LIMIT
  /\ rg = NewCall

NextGet == RobustGetStep

SpecGet == InitGet /\ [][NextGet]_vars
(***************************************************************************)
(* The resolver alone, applied to one label: find_genre_id in variant A,   *)
(* the inline resolution of run in variant B                               *)
(***************************************************************************)
CatFoodAmpDrink == <<"F","o","o","d"," ","&"," ","D","r","i","n","k">>
CatFoodAndDrink == <<"f","o","o","d"," ","a","n","d"," ","d","r","i","n","k">>
CatFood == <<"f","o","o","d">>

ResolvePool ==
  {GENRE_MAP[i].name : i \in DOMAIN GENRE_MAP}
    \cup {CatFoodAmpDrink, CatFoodAndDrink, CatFood, CatWeather, CatZzz,
          <<"H","e","a","l","t","h"," ","a","n","d"," ","F","i","t","n","e","s","s">>,
          <<"P","h","o","t","o"," ","a","n","d"," ","V","i","d","e","o">>,
          <<"K","i","d","s"," ","G","a","m","e","s">>,
          <<"S","p","o","r","t","s"," ","N","e","w","s">>,
          <<"n","e","w">>, <<"P","h","o","t","o">>, <<"B","o","o","k">>,
          <<"M","U","S","I","C">>, <<"S","o","c","i","a","l">>,
          <<"G","a","m","e","s">>, <<"s">>,
          <<>>, <<" ","N","e","w","s"," ">>}

InitResolve ==
  /\ variant \in {"A", "B"}
  /\ categories \in {<<c>> : c \in ResolvePool}
  /\ ci = 1
  /\ pc = "resolver"
  /\ gid = None
  /\ entries = <<>>
  /\ idx = 0
  /\ rows = <<>>
  /\ dets = <<>>
  /\ files = <<>>
  /\ writes = <<>>
  /\ reqs = <<>>
  /\ genreRet = None
  /\ country_name = None
  /\ page = None
  /\ lim = LIMIT
  /\ rg = IdleCall

\* gid = find_genre_id(cat)
A_FindGenre ==
  /\ variant = "A"
  /\ pc = "resolver"
  /\ gid' = find_genre_id(categories[ci])
  /\ pc' = "resolved"
  /\ UNCHANGED <<variant, categories, ci, entries, idx, rows, dets, files, writes,
                 reqs, genreRet, country_name, page, lim, rg>>

\* the "robust find" block of appstore.run
B_FindGenre ==
  /\ variant = "B"
  /\ pc = "resolver"
  /\ gid' = InlineResolve(categories[ci])
  /\ pc' = "resolved"
  /\ UNCHANGED <<variant, categories, ci, entries, idx, rows, dets, files, writes,
                 reqs, genreRet, country_name, page, lim, rg>>

NextResolve == A_FindGenre \/ B_FindGenre

SpecResolve == InitResolve /\ [][NextResolve]_vars

(***************************************************************************)
(* The chart-page scrape alone, on a page the request has fetched (status  *)
(* 200), for every limit                                                   *)
(***************************************************************************)
MaxLinks == 3
MaxLimit == 2

ScrapePages == {[links |-> q] : q \in SeqsUpTo(LinkPool, MaxLinks)}

InitScrape ==
  /\ variant = "B"
  /\ categories = <<>>
  /\ ci = 0
  /\ pc = "scrape"
  /\ gid = None
  /\ entries = <<>>
  /\ idx = 0
  /\ rows = <<>>
  /\ dets = <<>>
  /\ files = <<>>
  /\ writes = <<>>
  /\ reqs = <<>>
  /\ genreRet = None
  /\ country_name = None
  /\ page \in {Val(p) : p \in ScrapePages}
  /\ lim \in 0..MaxLimit
  /\ rg = IdleCall

\* ids = scrape_charts_page_for_genre(country, gid, limit)
B_Scrape ==
  /\ pc = "scrape"
  /\ entries' = scrape_charts_page_for_genre(Val(Resp(200)), page.val, lim)
  /\ pc' = "scraped"
  /\ UNCHANGED <<variant, categories, ci, gid, idx, rows, dets, files, writes,
                 reqs, genreRet, country_name, page, lim, rg>>

NextScrape == B_Scrape

SpecScrape == InitScrape /\ [][NextScrape]_vars

(***************************************************************************)
(* Properties                                                              *)
(***************************************************************************)
\* the retryable status codes as the specification lists them
SpecRetryable == {429, 502, 503, 504}

Last(q) == q[Len(q)]

RECURSIVE Pow(_, _)
Pow(b, n) == IF n = 0 THEN 1 ELSE b * Pow(b, n - 1)

IsRetryableStatus(o) == IsResp(o) /\ o.status \in SpecRetryable

\* C1: in both variants, an attempt that is not the last one and receives
\* 429, 502, 503 or 504 is followed by a backoff sleep and the call goes on
\* (it does not return the response to the caller).
C1_RetryableCodesAreRetried ==
  [][ ( /\ rg.st = "run"
        /\ rg'.attempt = rg.attempt + 1
        /\ rg'.attempt < MAX_RETRIES
        /\ IsRetryableStatus(Last(rg'.hist)) )
      => ( /\ rg'.st = "run"
           /\ Len(rg'.sleeps) = Len(rg.sleeps) + 1 ) ]_vars

\* C2: a call all of whose attempts received a retryable status code made
\* exactly MAX_RETRIES attempts, and the delay slept before attempt k+1 is
\* InitialDelay * (BackoffNum/BackoffDen)^(k-1).
C2_AllRetryableMakesFourAttempts ==
  ( /\ rg.st = "ret"
    /\ \A i \in DOMAIN rg.hist : IsRetryableStatus(rg.hist[i]) )
  => ( /\ rg.attempt = MAX_RETRIES
       /\ Len(rg.hist) = MAX_RETRIES
       /\ \A k \in 1..(MAX_RETRIES - 1) :
            /\ k \in DOMAIN rg.sleeps
            /\ rg.sleeps[k] * Pow(BackoffDen, k - 1) = InitialDelay * Pow(BackoffNum, k - 1) )

\* C3: an attempt that receives a non-2xx status code that is not retryable
\* is the last attempt of its call: the call has returned that response, no
\* sleep followed the attempt, and no further attempt was made, whatever
\* budget remained (one attempt in all if it was the first).
C3_NonRetryableReturnsAtOnce ==
  \A i \in DOMAIN rg.hist :
    ( /\ IsResp(rg.hist[i])
      /\ ~Is2xx(rg.hist[i].status)
      /\ rg.hist[i].status \notin SpecRetryable )
    => ( /\ i = Len(rg.hist)
         /\ rg.attempt = i
         /\ rg.st = "ret"
         /\ rg.r = Val(rg.hist[i])
         /\ Len(rg.sleeps) = i - 1 )

\* C3 witness: a 404 on the second attempt ends the call with budget left
C3_Witness ==
  /\ rg.st = "ret"
  /\ rg.hist = <<Resp(503), Resp(404)>>
  /\ rg.attempt < MAX_RETRIES

\* C4: a transport error consumes exactly one attempt and is retried like a
\* retryable status, and a call whose MAX_RETRIES attempts all ended in a
\* retryable status or a transport error has returned None.
C4_ExhaustedCallReturnsNone ==
  /\ rg.attempt = Len(rg.hist)
  /\ \A i \in DOMAIN rg.hist :
       (rg.hist[i] = Exc /\ i < MAX_RETRIES) => (i < Len(rg.hist) \/ rg.st = "run")
  /\ ( /\ rg.st = "ret"
       /\ Len(rg.hist) = MAX_RETRIES
       /\ \A i \in DOMAIN rg.hist : rg.hist[i] = Exc \/ IsRetryableStatus(rg.hist[i]) )
     => rg.r = None

\* C5: "Food & Drink", "food and drink" and "food" all resolve to the genre
\* id of the table entry "food & drink".
C5_FoodAndDrinkSynonyms ==
  ( /\ pc = "resolved"
    /\ categories[ci] \in {CatFoodAmpDrink, CatFoodAndDrink, CatFood} )
  => gid = Val(GenreOf(<<"f","o","o","d"," ","&"," ","d","r","i","n","k">>))

\* C6: once the genre feed has returned at least one entry for a category,
\* the country feed is not requested for it and the entries, and every row,
\* are those of the genre feed.
C6_GenreFeedWinsAlone ==
  (variant = "A" /\ genreRet # None /\ genreRet.val # <<>>)
  => ( /\ \A i \in DOMAIN reqs : reqs[i] # "country"
       /\ entries = genreRet.val
       /\ Len(rows) <= Len(genreRet.val)
       /\ \A i \in DOMAIN rows : rows[i].app_id = PyStr(genreRet.val[i].id) )

\* C6 witness: two genre-feed entries, both assembled
C6_Witness ==
  /\ variant = "A"
  /\ pc = "save"
  /\ genreRet # None
  /\ Len(genreRet.val) = 2
  /\ Len(rows) = 2

\* C7: the rows of a category are one per entry of the winning source, in
\* its order: row i has rank i and the app_id of entry i.
C7_RanksFollowSourceOrder ==
  /\ Len(rows) <= Len(entries)
  /\ pc = "lookup" => Len(rows) = idx - 1
  /\ pc \in {"save", "write", "iter", "done"} => Len(rows) = Len(entries)
  /\ \A i \in DOMAIN rows :
       /\ rows[i].rank = i
       /\ IF variant = "A"
          THEN entries[i].id # None => rows[i].app_id = entries[i].id.val
          ELSE rows[i].app_id = entries[i]

\* C7 witness: two different entries, both assembled
C7_Witness ==
  /\ variant = "A"
  /\ pc = "save"
  /\ Len(rows) = 2
  /\ entries[1] # entries[2]
  /\ entries[2].id # None

\* the columns of the fixed schema
SchemaColumns ==
  {"country", "category", "genre_id", "rank", "app_id", "app_name", "developer",
   "url", "price", "averageUserRating", "userRatingCount", "primaryGenreName",
   "description", "launch_date", "update_date"}

DetailOnlyColumns ==
  {"developer", "price", "averageUserRating", "userRatingCount", "primaryGenreName",
   "description", "launch_date", "update_date"}

\* C8: a row built from an entry with a name and an absent detail has the
\* entry's name as app_name, None in every detail-only column, and every
\* column of the schema.
C8_AbsentDetailFallsBack ==
  variant = "A" =>
    \A i \in DOMAIN rows :
      (dets[i] = None /\ entries[i].name # None)
      => ( /\ rows[i].app_name = entries[i].name
           /\ \A c \in DetailOnlyColumns : rows[i][c] = None
           /\ DOMAIN rows[i] = SchemaColumns )

\* C8 witness: the first entry has a name and its lookup returned nothing
C8_Witness ==
  /\ variant = "A"
  /\ Len(rows) >= 1
  /\ dets[1] = None
  /\ entries[1].name = Val(<<"X">>)

\* C9: "Weather" resolves to 6001; when the genre feed returned two entries
\* and both lookups succeeded, the file of the category holds exactly two
\* data rows, ranks 1 and 2 in feed order, with the same country, category
\* and genre_id.
C9_WeatherEndToEnd ==
  (variant = "A" /\ pc \in {"iter", "done"} /\ ci >= 1 /\ categories[ci] = CatWeather)
  => ( /\ gid = Val(6001)
       /\ ( /\ genreRet # None
            /\ Len(genreRet.val) = 2
            /\ \A i \in DOMAIN dets : dets[i] # None )
          => ( /\ FileNameA(CatWeather) \in DOMAIN files
               /\ LET f == files[FileNameA(CatWeather)]
                  IN  /\ Len(f) = 2
                      /\ f[1].rank = <<"1">>
                      /\ f[2].rank = <<"2">>
                      /\ \A i \in 1..2 : f[i].app_id = PyStr(genreRet.val[i].id)
                      /\ f[1].country = f[2].country
                      /\ f[1].category = f[2].category
                      /\ f[1].genre_id = f[2].genre_id
                      /\ f[1].genre_id = <<"6","0","0","1">> ) )

\* C9 witness: the Weather category is done, with two feed entries enriched
C9_Witness ==
  /\ variant = "A"
  /\ pc = "iter"
  /\ ci >= 1
  /\ categories[ci] = CatWeather
  /\ genreRet # None
  /\ Len(genreRet.val) = 2
  /\ Len(dets) = 2
  /\ \A i \in DOMAIN dets : dets[i] # None

\* C10: in both variants, a category for which every attempted chart source
\* returned an empty list ends with no row and without the writer having
\* been invoked for it.
C10_EmptyCategoryWritesNothing ==
  (pc \in {"iter", "done"} /\ ci >= 1 /\ entries = <<>>)
  => ( /\ rows = <<>>
       /\ \A w \in DOMAIN writes : writes[w].ci # ci )

\* C11: under every upstream behaviour the driver reaches its completed
\* state, having gone through the categories one by one in input order:
\* the category index only ever moves to the next one, at the head of the
\* loop, and at completion it is the length of the list.
C11_DriverCompletesInOrder ==
  /\ <>(pc = "done")
  /\ [](pc = "done" => ci = Len(categories))
  /\ [][ci' # ci => (pc = "iter" /\ ci' = ci + 1)]_vars

\* C11 witness: the first of two categories was skipped after a failure,
\* the second was processed and saved, and the run is complete
C11_Witness ==
  /\ pc = "done"
  /\ Len(categories) = 2
  /\ variant = "B"
  /\ Len(writes) = 1
  /\ writes[1].ci = 2

\* C12: a row built from a present detail record that lacks trackName, for
\* an entry that carries a name, has the entry's name as app_name: a
\* present detail never blanks out the name the entry supplied.
C12_MergeIsFieldByField ==
  variant = "A" =>
    \A i \in DOMAIN rows :
      (Truthy(dets[i]) /\ "trackName" \notin DOMAIN dets[i].val /\ entries[i].name # None)
      => rows[i].app_name = entries[i].name

\* C13: in both variants the rows assembled for one category never hold
\* two rows with the same app_id.
C13_NoDuplicateAppId ==
  \A i, j \in DOMAIN rows :
    i # j => rows[i].app_id # rows[j].app_id

\* C14: every row's app_id is non-empty, is not the text of a null value,
\* and is the identifier the chart source supplied for that entry.
C14_AppIdIsSuppliedIdentifier ==
  \A i \in DOMAIN rows :
    /\ rows[i].app_id # <<>>
    /\ rows[i].app_id # <<"N","o","n","e">>
    /\ variant = "A" => entries[i].id = Val(rows[i].app_id)
    /\ variant = "B" => entries[i] = rows[i].app_id

\* C15: persisting is all-or-nothing per category: the writer of a category
\* starts only when every entry has its row, and from the moment it has
\* started the category's file holds all the rows of the category, never
\* fewer.
C15_PersistIsAllOrNothing ==
  \A w \in DOMAIN writes :
    writes[w].ci = ci
    => ( /\ Len(rows) = Len(entries)
         /\ writes[w].name \in DOMAIN files
         /\ Len(files[writes[w].name]) = Len(rows)
         /\ \A i \in DOMAIN rows : files[writes[w].name][i].app_id = rows[i].app_id )

\* the ids of the links of a page, each at its first appearance
RECURSIVE FirstAppearances(_, _)
FirstAppearances(links, seen) ==
  IF links = <<>> THEN seen
  ELSE IF Head(links) = None \/ (\E k \in DOMAIN seen : seen[k] = Head(links).val)
       THEN FirstAppearances(Tail(links), seen)
       ELSE FirstAppearances(Tail(links), Append(seen, Head(links).val))

\* C16: for every page and every limit, 0 included, the scrape returns the
\* page's ids in order of first appearance, none repeated, cut at limit
\* elements: never more than limit.
C16_ScrapeOrderedDistinctCapped ==
  pc = "scraped" =>
    LET fa == FirstAppearances(page.val.links, <<>>)
    IN  /\ Len(entries) <= lim
        /\ \A i, j \in DOMAIN entries : i # j => entries[i] # entries[j]
        /\ Len(entries) <= Len(fa)
        /\ entries = SubSeq(fa, 1, Len(entries))
        /\ Len(entries) < lim => entries = fa

\* C17: for a category the resolver left unresolved, no request goes to a
\* genre-scoped source (genre feed, genre chart page); in TopChart_Data.run
\* the country feed is then the first request of the category and its only
\* chart request.
C17_UnresolvedSkipsGenreSources ==
  (ci >= 1 /\ gid = None)
  => ( /\ \A i \in DOMAIN reqs : reqs[i] \notin {"genre", "chart"}
       /\ variant = "A"
          => ( /\ reqs # <<>>
               /\ reqs[1] = "country"
               /\ \A i \in DOMAIN reqs : i # 1 => reqs[i] = "lookup" ) )

\* C17 witness: an unresolved category of TopChart_Data.run whose rows, from
\* the country feed, are assembled
C17_Witness ==
  /\ variant = "A"
  /\ ci >= 1
  /\ categories[ci] = CatZzz
  /\ gid = None
  /\ pc = "save"
  /\ Len(rows) >= 1

\* C18: the labels of the category list being distinct, no two categories
\* of a run are saved under the same file name, so no category's file is
\* overwritten by a later category.
C18_ArtifactNamesDistinct ==
  \A v, w \in DOMAIN writes :
    v # w => writes[v].name # writes[w].name

\* C19: on the trimmed, lower-cased input the resolver applies its rules in
\* a fixed order: an input equal to a table key gets that key's id, whatever
\* earlier keys contain it or are contained in it; failing that, a key equal
\* to the &-normalized input gives the id; failing that, the first key in
\* table order with key-in-input or input-in-key gives the id; the result is
\* None exactly when no key satisfies any rule.
C19_ResolverRuleOrder ==
  pc = "resolved" =>
    LET k     == Lower(Strip(categories[ci]))
        exact == {i \in DOMAIN GENRE_MAP : GENRE_MAP[i].name = k}
        norm  == {i \in DOMAIN GENRE_MAP : GENRE_MAP[i].name = ReplaceAmp(k)}
        sub   == {i \in DOMAIN GENRE_MAP :
                    IsSubstr(GENRE_MAP[i].name, k) \/ IsSubstr(k, GENRE_MAP[i].name)}
    IN  /\ exact # {} => \E i \in exact : gid = Val(GENRE_MAP[i].gid)
        /\ (exact = {} /\ norm # {}) => \E i \in norm : gid = Val(GENRE_MAP[i].gid)
        /\ (exact = {} /\ norm = {} /\ sub # {})
           => \E i \in sub : /\ gid = Val(GENRE_MAP[i].gid)
                             /\ \A j \in sub : i <= j
        /\ gid = None <=> (exact = {} /\ norm = {} /\ sub = {})

\* C19 witness: "news" is a table key, and an earlier key of the table,
\* "magazines & newspapers", contains it: the result is the id of "news"
C19_Witness ==
  /\ pc = "resolved"
  /\ categories[ci] = <<"n","e","w","s">>
  /\ gid = Val(6009)

\* C20: robust_get sleeps only between attempts: a call that has returned
\* after n attempts has slept exactly n - 1 times.
C20_SleepsOnlyBetweenAttempts ==
  rg.st = "ret" => Len(rg.sleeps) = rg.attempt - 1

\* C21: the two variants resolve a category alike: whatever the label, the
\* genre id (or None) one variant's resolver has produced is the one the
\* other variant's resolver yields for the same label.
C21_ResolversAgree ==
  pc = "resolved" =>
    gid = IF variant = "A" THEN InlineResolve(categories[ci])
          ELSE find_genre_id(categories[ci])

\* C21 witness: appstore.run has resolved a label through the substring
\* loop, where two keys of the table match ("news" and "sports")
C21_Witness ==
  /\ variant = "B"
  /\ pc = "resolved"
  /\ categories[ci] = <<"S","p","o","r","t","s"," ","N","e","w","s">>
  /\ gid = Val(6009)
====
